---- MODULE Spec2Model ----
(***************************************************************************)
(* hex_of_life (src/main.rs): a hexagonal Game of Life on bevy.  The model *)
(* has three layers:                                                       *)
(*   1. binary32 arithmetic and i32 arithmetic as Rust evaluates them,     *)
(*   2. the coordinate functions of main.rs built on that arithmetic,      *)
(*   3. the bevy systems of main.rs as actions over the ECS world.         *)
(***************************************************************************)
EXTENDS Integers, Sequences, FiniteSets, TLC

(***************************************************************************)
(* 1a. f32.  A value is [k, s, m, e]: k is "fin", "inf" or "nan", s the    *)
(* sign bit, and a finite value is (-1)^s * m * 2^e.  Normal numbers have  *)
(* 2^23 <= m < 2^24 and -149 <= e <= 104, subnormals m < 2^23 and          *)
(* e = -149, zero m = 0.  Every operation rounds to nearest, ties to even. *)
(***************************************************************************)
F32_MANT_BITS == 24
F32_EMIN == -149
F32_EMAX == 104

Two23 == 2^23
Two24 == 2^24

Max(a, b) == IF a >= b THEN a ELSE b
Min(a, b) == IF a <= b THEN a ELSE b

F32NaN == [k |-> "nan", s |-> 0, m |-> 0, e |-> 0]
F32Inf(s) == [k |-> "inf", s |-> s, m |-> 0, e |-> 0]
F32Zero(s) == [k |-> "fin", s |-> s, m |-> 0, e |-> 0]
F32Fin(s, m, e) == [k |-> "fin", s |-> s, m |-> m, e |-> e]

IsNaN(x) == x.k = "nan"
IsInf(x) == x.k = "inf"
IsZero(x) == x.k = "fin" /\ x.m = 0

\* Number of significant bits of M, 0 <= M < 2^30.
BitLen(M) ==
  IF M < 32768
  THEN IF M < 128
       THEN IF M < 8
            THEN IF M < 1 THEN 0 ELSE IF M < 2 THEN 1 ELSE IF M < 4 THEN 2 ELSE 3
            ELSE IF M < 16 THEN 4 ELSE IF M < 32 THEN 5 ELSE IF M < 64 THEN 6 ELSE 7
       ELSE IF M < 2048
            THEN IF M < 256 THEN 8 ELSE IF M < 512 THEN 9 ELSE IF M < 1024 THEN 10 ELSE 11
            ELSE IF M < 4096 THEN 12 ELSE IF M < 8192 THEN 13 ELSE IF M < 16384 THEN 14 ELSE 15
  ELSE IF M < 8388608
       THEN IF M < 524288
            THEN IF M < 65536 THEN 16 ELSE IF M < 131072 THEN 17 ELSE IF M < 262144 THEN 18 ELSE 19
            ELSE IF M < 1048576 THEN 20 ELSE IF M < 2097152 THEN 21 ELSE IF M < 4194304 THEN 22 ELSE 23
       ELSE IF M < 134217728
            THEN IF M < 16777216 THEN 24 ELSE IF M < 33554432 THEN 25 ELSE IF M < 67108864 THEN 26 ELSE 27
            ELSE IF M < 268435456 THEN 28 ELSE IF M < 536870912 THEN 29 ELSE 30

\* Rounding to nearest, ties to even: the quotient q is rounded up when the
\* remainder rem (with a sticky fraction below it) exceeds half, or equals it
\* and q is odd.
RoundsUp(rem, half, st, q) == rem > half \/ (rem = half /\ (st \/ q % 2 = 1))

\* The f32 (-1)^s * q1 * 2^e for a rounded mantissa q1 <= 2^24.
PackRounded(s, q1, e) ==
  IF q1 = 0 THEN F32Zero(s)
  ELSE IF q1 = Two24 THEN (IF e + 1 > F32_EMAX THEN F32Inf(s) ELSE F32Fin(s, Two23, e + 1))
  ELSE IF e > F32_EMAX THEN F32Inf(s)
  ELSE F32Fin(s, q1, e)

\* M has k bits too many: drop them and round.
RoundShifted(s, M, E, st, k) ==
  PackRounded(s, (M \div 2^k) + (IF RoundsUp(M % 2^k, 2^(k - 1), st, M \div 2^k) THEN 1 ELSE 0), E + k)

\* M fits: shift it up by t bits, as far as the exponent range allows.
RoundExact(s, M, E, t) ==
  IF E - t > F32_EMAX THEN F32Inf(s) ELSE F32Fin(s, M * 2^t, E - t)

\* k is the number of low bits of M that the result cannot hold.
RoundBy(s, M, E, st, n, k) ==
  IF k <= 0 THEN RoundExact(s, M, E, Min(F32_MANT_BITS - n, E - F32_EMIN))
  ELSE IF k > 30 THEN F32Zero(s)
  ELSE RoundShifted(s, M, E, st, k)

\* The f32 nearest to (-1)^s * (M + f) * 2^E, where 0 <= M < 2^30 and f is a
\* fraction in [0, 1) that is nonzero iff st ("sticky").  Callers pass
\* st = TRUE only with M of more than 25 bits.
RoundPack(s, M, E, st) ==
  IF M = 0 THEN F32Zero(s)
  ELSE RoundBy(s, M, E, st, BitLen(M), Max(BitLen(M) - F32_MANT_BITS, F32_EMIN - E))

\* A finite nonzero value with its mantissa shifted up to 24 bits (the exponent
\* may then lie below F32_EMIN: an intermediate form only).
ShiftedUp(x, t) == [s |-> x.s, m |-> x.m * 2^t, e |-> x.e - t]
Normalized(x) == ShiftedUp(x, F32_MANT_BITS - BitLen(x.m))

F32Neg(x) == IF IsNaN(x) THEN x ELSE [x EXCEPT !.s = 1 - x.s]
F32Abs(x) == IF IsNaN(x) THEN x ELSE [x EXCEPT !.s = 0]

\* i32 as f32 (IVec2::as_vec2), |n| < 2^30.
F32FromInt(n) == RoundPack(IF n < 0 THEN 1 ELSE 0, IF n < 0 THEN -n ELSE n, 0, FALSE)

\* The 48-bit product of two 24-bit mantissas as H * 2^24 + L, by 12-bit
\* limbs: hh, hl and ll are the partial products, mid the middle column.
MulPack(s, H, L, E) == RoundPack(s, H * 4 + (L \div 2^22), E + 22, (L % 2^22) # 0)
MulMid(s, hh, mid, ll, E) == MulPack(s, hh + (mid \div 4096), (mid % 4096) * 4096 + (ll % 4096), E)
MulLimbs(s, x1, x0, y1, y0, E) == MulMid(s, x1 * y1, x1 * y0 + x0 * y1 + ((x0 * y0) \div 4096), x0 * y0, E)
MulNormal(s, x, y) == MulLimbs(s, x.m \div 4096, x.m % 4096, y.m \div 4096, y.m % 4096, x.e + y.e)

\* a * b
F32Mul(a, b) ==
  IF IsNaN(a) \/ IsNaN(b) THEN F32NaN
  ELSE IF IsInf(a) \/ IsInf(b)
       THEN IF IsZero(a) \/ IsZero(b) THEN F32NaN ELSE F32Inf((a.s + b.s) % 2)
  ELSE IF IsZero(a) \/ IsZero(b) THEN F32Zero((a.s + b.s) % 2)
  ELSE MulNormal((a.s + b.s) % 2, Normalized(a), Normalized(b))

\* floor(x * 2^26 / d) and whether a remainder is left, for x, d < 2^24:
\* long division in steps of 7, 7, 7 and 5 bits, each within 31 bits.
DivBits(x, d) ==
  LET q0 == x \div d
      r0 == x % d
      q1 == (r0 * 128) \div d
      r1 == (r0 * 128) % d
      q2 == (r1 * 128) \div d
      r2 == (r1 * 128) % d
      q3 == (r2 * 128) \div d
      r3 == (r2 * 128) % d
      q4 == (r3 * 32) \div d
      r4 == (r3 * 32) % d
  IN  << (((q0 * 128 + q1) * 128 + q2) * 128 + q3) * 32 + q4, r4 # 0 >>

DivPack(s, qr, E) == RoundPack(s, qr[1], E, qr[2])
DivNormal(s, x, y) == DivPack(s, DivBits(x.m, y.m), x.e - y.e - 26)

\* a / b
F32Div(a, b) ==
  IF IsNaN(a) \/ IsNaN(b) THEN F32NaN
  ELSE IF IsInf(a) THEN (IF IsInf(b) THEN F32NaN ELSE F32Inf((a.s + b.s) % 2))
  ELSE IF IsInf(b) THEN F32Zero((a.s + b.s) % 2)
  ELSE IF IsZero(b) THEN (IF IsZero(a) THEN F32NaN ELSE F32Inf((a.s + b.s) % 2))
  ELSE IF IsZero(a) THEN F32Zero((a.s + b.s) % 2)
  ELSE DivNormal((a.s + b.s) % 2, Normalized(a), Normalized(b))

\* The sum of two finite nonzero values, hi the one of larger magnitude:
\* Mh and Ml are the mantissas with 5 guard bits, aligned to hi's exponent,
\* st tells that bits of lo were shifted out.
AddAligned(hs, ls, Mh, Ml, st, E) ==
  IF hs = ls THEN RoundPack(hs, Mh + Ml, E, st)
  ELSE IF Mh = Ml /\ ~st THEN F32Zero(0)
  ELSE RoundPack(hs, Mh - Ml - (IF st THEN 1 ELSE 0), E, st)

AddShifted(hi, lo, d) ==
  AddAligned(hi.s, lo.s, hi.m * 32,
             IF d > 29 THEN 0 ELSE (lo.m * 32) \div 2^d,
             IF d > 29 THEN TRUE ELSE ((lo.m * 32) % 2^d) # 0,
             hi.e - 5)

AddOrdered(hi, lo) == AddShifted(hi, lo, hi.e - lo.e)

\* a + b
F32Add(a, b) ==
  IF IsNaN(a) \/ IsNaN(b) THEN F32NaN
  ELSE IF IsInf(a) THEN (IF IsInf(b) /\ a.s # b.s THEN F32NaN ELSE a)
  ELSE IF IsInf(b) THEN b
  ELSE IF IsZero(a) THEN (IF IsZero(b) THEN F32Zero(IF a.s = 1 /\ b.s = 1 THEN 1 ELSE 0) ELSE b)
  ELSE IF IsZero(b) THEN a
  ELSE IF a.e > b.e \/ (a.e = b.e /\ a.m >= b.m) THEN AddOrdered(a, b)
  ELSE AddOrdered(b, a)

\* a - b
F32Sub(a, b) == F32Add(a, F32Neg(b))

\* |x| > |y| for values that are not NaN
MagGt(x, y) ==
  IF IsInf(x) THEN ~IsInf(y)
  ELSE IF IsInf(y) THEN FALSE
  ELSE IF IsZero(y) THEN ~IsZero(x)
  ELSE IF IsZero(x) THEN FALSE
  ELSE x.e > y.e \/ (x.e = y.e /\ x.m > y.m)

\* a > b (false when either is NaN)
F32Gt(a, b) ==
  IF IsNaN(a) \/ IsNaN(b) THEN FALSE
  ELSE IF IsZero(a) /\ IsZero(b) THEN FALSE
  ELSE IF a.s # b.s THEN a.s = 0
  ELSE
    IF a.s = 0 THEN MagGt(a, b) ELSE MagGt(b, a)

\* a < b
F32Lt(a, b) == F32Gt(b, a)

\* f32::trunc: the integer part
F32Trunc(x) ==
  IF x.k # "fin" \/ x.m = 0 \/ x.e >= 0 THEN x
  ELSE IF -x.e > F32_MANT_BITS THEN F32Zero(x.s)
  ELSE RoundPack(x.s, x.m \div 2^(-x.e), 0, FALSE)

\* f32::round: to the nearest integer, halves away from zero.
F32Round(x) ==
  IF x.k # "fin" \/ x.m = 0 \/ x.e >= 0 THEN x
  ELSE IF -x.e > F32_MANT_BITS THEN F32Zero(x.s)
  ELSE RoundPack(x.s, (x.m \div 2^(-x.e)) + (IF 2 * (x.m % 2^(-x.e)) >= 2^(-x.e) THEN 1 ELSE 0), 0, FALSE)

(***************************************************************************)
(* 1b. i32.  `f as i32` saturates and maps NaN to 0.  Negation and         *)
(* subtraction overflow: a build with overflow checks panics, one without  *)
(* wraps modulo 2^32.  Values are computed in 16-bit halves.               *)
(***************************************************************************)
I32_MAX == 2147483647
I32_MIN == -I32_MAX - 1
Two16 == 65536

F32AsI32(x) ==
  IF IsNaN(x) THEN 0
  ELSE IF IsInf(x) THEN (IF x.s = 0 THEN I32_MAX ELSE I32_MIN)
  ELSE IF x.m = 0 THEN 0
  ELSE IF x.e >= 0
       THEN IF BitLen(x.m) + x.e > 31 THEN (IF x.s = 0 THEN I32_MAX ELSE I32_MIN)
            ELSE IF x.s = 0 THEN x.m * 2^x.e ELSE -(x.m * 2^x.e)
  ELSE IF -x.e > 30 THEN 0
  ELSE IF x.s = 0 THEN x.m \div 2^(-x.e) ELSE -(x.m \div 2^(-x.e))

\* The halves of an i32: n = Hi(n) * 2^16 + Lo(n), 0 <= Lo(n) < 2^16.
Lo(n) == n % Two16
Hi(n) == (n - Lo(n)) \div Two16

\* -a - b as an i32 expression: [v |-> the wrapped result, ovf |-> whether
\* the negation or the subtraction overflowed].
I32NegSub(a, b) ==
  LET l == -Lo(a) - Lo(b)                 \* -131070 .. 0
      lw == l % Two16
      h == -Hi(a) - Hi(b) + ((l - lw) \div Two16)
      hw == ((h + 32768) % Two16) - 32768
  IN  [v |-> hw * Two16 + lw, ovf |-> h # hw \/ a = I32_MIN]

\* a + b as an i32 expression: [v |-> the wrapped result, ovf |-> whether
\* the addition overflowed].
I32Sum(lw, h, hw) == [v |-> hw * Two16 + lw, ovf |-> h # hw]
I32SumHi(lw, h) == I32Sum(lw, h, ((h + 32768) % Two16) - 32768)
I32SumLo(a, b, l) == I32SumHi(l % Two16, Hi(a) + Hi(b) + (l \div Two16))
I32Add(a, b) == I32SumLo(a, b, Lo(a) + Lo(b))

(***************************************************************************)
(* 2. Coordinate math (main.rs 223-306).  Vec2 and Vec3 are tuples of f32, *)
(* AxialCoordinate is <<q, r>> and CubeCoordinate <<q, r, s>> of i32, a    *)
(* Mat2 is its column-major array <<m00, m10, m01, m11>>.                  *)
(***************************************************************************)
SQRT_3 == F32Fin(0, 14529495, -23)      \* 1.732_050_8 as f32
HEX_SIZE == F32FromInt(10)

F32Lit(n) == F32FromInt(n)

\* f32 * Mat2 (glam: every element times the scalar)
MatScale(size, M) == [i \in 1..4 |-> F32Mul(size, M[i])]

\* Mat2 * Vec2 (glam: x_axis * v.x + y_axis * v.y), by component
MatMulVecX(M, v) == F32Add(F32Mul(M[1], v[1]), F32Mul(M[3], v[2]))
MatMulVecY(M, v) == F32Add(F32Mul(M[2], v[1]), F32Mul(M[4], v[2]))
MatMulVec(M, v) == << MatMulVecX(M, v), MatMulVecY(M, v) >>

\* IVec2::as_vec2
AsVec2(a) == << F32FromInt(a[1]), F32FromInt(a[2]) >>

AxialBasis == << F32Div(F32Lit(3), F32Lit(2)), F32Div(SQRT_3, F32Lit(2)), F32Lit(0), SQRT_3 >>

\* size * flat_basis; the product for HEX_SIZE is evaluated once.
HexAxialBasis == MatScale(HEX_SIZE, AxialBasis)
ScaledAxialBasis(size) == IF size = HEX_SIZE THEN HexAxialBasis ELSE MatScale(size, AxialBasis)

\* axial_to_screen, and its components one at a time
ScreenX(size, hex_pos) == MatMulVecX(ScaledAxialBasis(size), AsVec2(hex_pos))
ScreenY(size, hex_pos) == MatMulVecY(ScaledAxialBasis(size), AsVec2(hex_pos))
axial_to_screen(size, hex_pos) == MatMulVec(ScaledAxialBasis(size), AsVec2(hex_pos))

ScreenBasis ==
  << F32Div(F32Lit(2), F32Lit(3)), F32Div(F32Neg(F32Lit(1)), F32Lit(3)),
     F32Lit(0), F32Div(SQRT_3, F32Lit(3)) >>

\* Vec3::new(axial.x, axial.y, -axial.x - axial.y)
CubeOfAxial(axial) == << axial[1], axial[2], F32Sub(F32Neg(axial[1]), axial[2]) >>

\* Vec2 / f32
VecDiv(v, size) == << F32Div(v[1], size), F32Div(v[2], size) >>

screen_to_cube_float(size, point) == CubeOfAxial(VecDiv(MatMulVec(ScreenBasis, point), size))

\* cube_round: [c |-> the CubeCoordinate a build without overflow checks
\* returns, ovf |-> whether computing it overflowed i32 (a build with overflow
\* checks panics there)].
RepairedFirstOfTies(diff, ret) ==
  IF ~F32Lt(diff[1], diff[2]) /\ ~F32Lt(diff[1], diff[3])
  THEN [c |-> << I32NegSub(ret[2], ret[3]).v, ret[2], ret[3] >>, ovf |-> I32NegSub(ret[2], ret[3]).ovf]
  ELSE IF ~F32Lt(diff[2], diff[3])
  THEN [c |-> << ret[1], I32NegSub(ret[1], ret[3]).v, ret[3] >>, ovf |-> I32NegSub(ret[1], ret[3]).ovf]
  ELSE [c |-> << ret[1], ret[2], I32NegSub(ret[1], ret[2]).v >>, ovf |-> I32NegSub(ret[1], ret[2]).ovf]
Repaired(diff, ret) ==
  IF F32Gt(diff[1], diff[2]) /\ F32Gt(diff[1], diff[3])
  THEN [c |-> << I32NegSub(ret[2], ret[3]).v, ret[2], ret[3] >>, ovf |-> I32NegSub(ret[2], ret[3]).ovf]
  ELSE IF F32Gt(diff[2], diff[3])
  THEN [c |-> << ret[1], I32NegSub(ret[1], ret[3]).v, ret[3] >>, ovf |-> I32NegSub(ret[1], ret[3]).ovf]
  ELSE [c |-> << ret[1], ret[2], I32NegSub(ret[1], ret[2]).v >>, ovf |-> I32NegSub(ret[1], ret[2]).ovf]

Rounded(cube, rounded_cube) ==
  Repaired([i \in 1..3 |-> F32Abs(F32Sub(rounded_cube[i], cube[i]))],
           [i \in 1..3 |-> F32AsI32(rounded_cube[i])])

cube_round(cube) == Rounded(cube, [i \in 1..3 |-> F32Round(cube[i])])

\* impl From<CubeCoordinate> for AxialCoordinate
CubeToAxial(cc) == << cc[1], cc[2] >>

\* The six neighbours, in the order of neighbour_possibilities (241-248).
NeighbourOffsetsRepeated == << <<1, 0>>, <<1, -1>>, <<0, -1>>, <<-1, 0>>, <<-1, 1>>, <<1, 0>> >>
NeighbourOffsets == << <<1, 0>>, <<1, -1>>, <<0, -1>>, <<-1, 0>>, <<-1, 1>>, <<0, 1>> >>

\* 251: AxialCoordinate(self.0 + n), IVec2's + adding the i32 components
IVec2Add(a, n) == << I32Add(a[1], n[1]).v, I32Add(a[2], n[2]).v >>
IVec2AddOverflows(a, n) == I32Add(a[1], n[1]).ovf \/ I32Add(a[2], n[2]).ovf

\* The items of the iterator in a build without overflow checks, and whether
\* one of the additions overflows (a build with the checks panics there).
neighbour_iter(a) == [i \in 1..6 |-> IVec2Add(a, NeighbourOffsets[i])]
NeighbourOverflows(a) == \E i \in 1..6 : IVec2AddOverflows(a, NeighbourOffsets[i])

\* screen_to_cube_float, cube_round and into() as game_of_life (69-71) and
\* highlight_hex (125-127) chain them.
IntoAxial(cc) == [axial |-> CubeToAxial(cc.c), ovf |-> cc.ovf]
PointToAxial(size, point) == IntoAxial(cube_round(screen_to_cube_float(size, point)))

(***************************************************************************)
(* 3. The ECS world and the systems of main() (21-42).                     *)
(*                                                                         *)
(* Entities are numbered in spawn order: the camera is 0, the hexes follow *)
(* in the order of setup_system's loops.  A system's Commands are queued   *)
(* and applied when every system of the stage has run (bevy's stage applies*)
(* the buffers after the systems); a system never sees a queued command.   *)
(***************************************************************************)
VARIABLES
  wnds,           \* Windows: the primary window, if there is one
  hex_map,        \* HexMap: AxialCoordinate -> Entity
  translation,    \* Transform.translation.truncate() of every hex entity
  alive,          \* the entities that carry the Alive component
  started,        \* GameState.started
  panicked,       \* the process has aborted with a panic
  ran,            \* the systems that have run in this pass of the stage
  queue,          \* the queued Commands of highlight_hex and game_of_life
  dead_alive_neighbours,  \* the tally of this pass's game_of_life as its first loop left it
  tick,           \* this pass's game_of_life: "idle", or the flag a due step read: "paused", "running"
  press,          \* this frame's pointer event as highlight_hex saw it
  return_key,     \* this frame's Return key as game_control saw it
  color,          \* SmudShape.color of every hex entity
  undo,           \* history: the last committed toggle and the alive set before it
  flag,           \* the boolean-flag reference: an alive flag for every key of hex_map
  trial           \* a call of a coordinate function under test (SpecRound, SpecRoundTrip)

vars == << wnds, hex_map, translation, alive, started, panicked, ran, queue, dead_alive_neighbours, tick, press, return_key, color, undo, flag, trial >>

\* ---- the bounds of the model
WindowWidth == 40       \* the primary window's width, in pixels
WindowHeight == 40      \* and its height
PointerReach == 1       \* pointer presses land on hex centres with |q|, |r| <= PointerReach
MaxPermuted == 2        \* iteration orders: all of them up to this many items

\* ---- setup_system (169-209)
GEN_MIN == -100
GEN_MAX == 100          \* for q in -100..100: GEN_MAX itself is excluded

NoWindow == [present |-> FALSE, width |-> 0, height |-> 0]
Windows == { NoWindow, [present |-> TRUE, width |-> WindowWidth, height |-> WindowHeight] }

\* wnd.width() / 2., or 0. without a primary window
HalfExtent(present, extent) == IF present THEN F32Div(F32FromInt(extent), F32Lit(2)) ELSE F32Lit(0)

\* center.x < -half_width || center.x > half_width (and the same for y)
OutOfView(center, half) == F32Lt(center, F32Neg(half)) \/ F32Gt(center, half)

\* The coordinates the loops do not `continue` past.
InViewport(half_width, half_height, coord) ==
  /\ ~OutOfView(ScreenX(HEX_SIZE, coord), half_width)
  /\ ~OutOfView(ScreenY(HEX_SIZE, coord), half_height)

\* coord is visited before other by `for q { for r {`
LoopBefore(coord, other) == coord[1] < other[1] \/ (coord[1] = other[1] /\ coord[2] < other[2])

\* The hexes spawned for the coordinates kept: entity ids count up in loop order.
EntityOf(kept, coord) == 1 + Cardinality({ other \in kept : LoopBefore(other, coord) })
Spawned(kept) ==
  [ hex_map |-> [coord \in kept |-> EntityOf(kept, coord)],
    translation |-> [en \in 1 .. Cardinality(kept) |->
                       axial_to_screen(HEX_SIZE, CHOOSE coord \in kept : EntityOf(kept, coord) = en)] ]

\* The world setup_system leaves: hex_map and the spawned entities' translations.
setup_system(wnd) ==
  Spawned({ coord \in (GEN_MIN .. GEN_MAX - 1) \X (GEN_MIN .. GEN_MAX - 1) :
              InViewport(HalfExtent(wnd.present, wnd.width), HalfExtent(wnd.present, wnd.height), coord) })

\* setup_system's result for every window of the model (evaluated once).
Worlds == [wnd \in Windows |-> setup_system(wnd)]

\* ---- inputs
\* World positions of a pointer press: the centres of the hexes around the
\* origin, a point off every centre, and a point that zooming out (line 161)
\* brings under the cursor, far outside the grid.
OffCentrePoint == << F32FromInt(4), F32FromInt(-7) >>
FarPoint == << F32Fin(0, Two23, 17), F32Fin(0, Two23, 18) >>       \* (2^40, 2^41)
PointerPositions ==
  { axial_to_screen(HEX_SIZE, coord) : coord \in (-PointerReach .. PointerReach) \X (-PointerReach .. PointerReach) }
    \cup { OffCentrePoint, FarPoint }

\* PointToAxial(HEX_SIZE, p) for every point the systems pass to it (evaluated once).
KnownPoints ==
  PointerPositions \cup UNION { { Worlds[wnd].translation[en] : en \in DOMAIN Worlds[wnd].translation } : wnd \in Windows }
AxialAt == [point \in KnownPoints |-> PointToAxial(HEX_SIZE, point)]

\* ---- Commands
Systems == { "highlight_hex", "game_control", "game_of_life" }
NoCommands == [ highlight_hex |-> << >>, game_of_life |-> << >> ]
Remove(en) == [op |-> "remove", e |-> en]
Insert(en) == [op |-> "insert", e |-> en]

\* commands.entity(e).remove::<Alive>() / .insert(Alive), applied to the world
ApplyCommandRemovesOnly(world_alive, cmd) ==
  IF cmd.op = "remove" THEN world_alive \ {cmd.e} ELSE world_alive
ApplyCommand(world_alive, cmd) ==
  IF cmd.op = "remove" THEN world_alive \ {cmd.e} ELSE world_alive \cup {cmd.e}

RECURSIVE ApplyQueue(_, _)
ApplyQueue(world_alive, cmds) ==
  IF cmds = << >> THEN world_alive
  ELSE ApplyQueue(ApplyCommand(world_alive, Head(cmds)), Tail(cmds))

\* ---- iteration orders (Query::iter and HashMap iteration promise none)
Ascending(S) == [i \in 1 .. Cardinality(S) |-> CHOOSE x \in S : Cardinality({ y \in S : y < x }) = i - 1]
Descending(S) == [i \in 1 .. Cardinality(S) |-> CHOOSE x \in S : Cardinality({ y \in S : y > x }) = i - 1]
AllOrders(S) == { f \in [1 .. Cardinality(S) -> S] : \A i, j \in 1 .. Cardinality(S) : f[i] = f[j] => i = j }
IterationOrders(S) ==
  IF Cardinality(S) <= MaxPermuted THEN AllOrders(S) ELSE { Ascending(S), Descending(S) }

\* ---- builds
\* Whether the build checks integer overflow (a debug build does, a release
\* build does not) decides what an overflowing i32 operation does; a run in
\* which none overflows is the same run in both.
Builds(overflowed) == IF overflowed THEN BOOLEAN ELSE { FALSE }

\* ---- game_of_life (58-96)
\* query.get(entity).is_ok() / q_alive.get_mut(entity).is_ok(): whether the
\* entity carries Alive in the world the system runs on.  The commands the
\* system has queued so far (cmds) are not part of that world.
QueryHasEager(world_alive, cmds, en) == en \in ApplyQueue(world_alive, cmds)
QueryHas(world_alive, cmds, en) == en \in world_alive

\* 64: if !game_state.started { return; }
ReturnsNever(game_state_started) == FALSE
ReturnsEarly(game_state_started) == ~game_state_started

\* 87: if alive_alive_neighbours != 2
DiesOnTwo(alive_alive_neighbours) == alive_alive_neighbours = 2
DiesUnlessTwoOrThree(alive_alive_neighbours) == alive_alive_neighbours # 2 /\ alive_alive_neighbours # 3
Dies(alive_alive_neighbours) == alive_alive_neighbours # 2

\* 92: if count == 2
BornOnThree(count) == count = 3
Born(count) == count = 2

\* *dead += 1 on a u8
U8Inc(count) == (count + 1) % 256

\* dead_alive_neighbours.entry(en).or_insert(0), then += 1
BumpEntryFromOne(tally, en) ==
  [x \in DOMAIN tally \cup {en} |->
     IF x = en THEN U8Inc(IF en \in DOMAIN tally THEN tally[en] ELSE 1) ELSE tally[x]]
BumpEntry(tally, en) ==
  [x \in DOMAIN tally \cup {en} |->
     IF x = en THEN U8Inc(IF en \in DOMAIN tally THEN tally[en] ELSE 0) ELSE tally[x]]

\* 75, 128: hex_map.0.get(&axial), as the set of the entities found
HexMapGetOrFirst(map, axial) == IF axial \in DOMAIN map THEN { map[axial] } ELSE { 1 }
HexMapGetOrDefault(map, axial) == IF axial \in DOMAIN map THEN { map[axial] } ELSE { 0 }
HexMapGet(map, axial) == IF axial \in DOMAIN map THEN { map[axial] } ELSE { }

\* Lines 75-85 for what the lookup of one neighbour found.
\* acc is [alive_alive_neighbours, dead_alive_neighbours].
CountNeighbour(found, cmds, acc) ==
  IF found = { } THEN acc
  ELSE IF QueryHas(alive, cmds, CHOOSE en \in found : TRUE)
       THEN [acc EXCEPT !.alive_alive_neighbours = @ + 1]
       ELSE [acc EXCEPT !.dead_alive_neighbours = BumpEntry(@, CHOOSE en \in found : TRUE)]

\* Lines 73-86 for one surveyed cell: the neighbours from index i on.
RECURSIVE CountNeighbours(_, _, _, _)
CountNeighbours(neighbours, i, cmds, acc) ==
  IF i > 6 THEN acc
  ELSE CountNeighbours(neighbours, i + 1, cmds,
                       CountNeighbour(HexMapGet(hex_map, neighbours[i]), cmds, acc))

\* Lines 87-89 after the neighbours of `entity` are counted.
Surveyed(entity, overflowed, counted, acc) ==
  [ dead_alive_neighbours |-> counted.dead_alive_neighbours,
    cmds |-> IF Dies(counted.alive_alive_neighbours)
             THEN Append(acc.cmds, Remove(entity)) ELSE acc.cmds,
    ovf |-> acc.ovf \/ overflowed ]

\* Lines 69-86 for one alive entity whose position rounds to `recovered`.
SurveyEntity(entity, recovered, acc) ==
  Surveyed(entity, recovered.ovf \/ NeighbourOverflows(recovered.axial),
           CountNeighbours(neighbour_iter(recovered.axial), 1, acc.cmds,
                           [ alive_alive_neighbours |-> 0,
                             dead_alive_neighbours |-> acc.dead_alive_neighbours ]),
           acc)

\* Lines 68-90: the first loop, over the alive entities in the order `order`,
\* from index i on.  acc is [dead_alive_neighbours, cmds, ovf].
RECURSIVE Survey(_, _, _)
Survey(order, i, acc) ==
  IF i > Len(order) THEN acc
  ELSE Survey(order, i + 1, SurveyEntity(order[i], AxialAt[translation[order[i]]], acc))

\* Lines 91-95: the second loop, over the tally in the order `order`.
RECURSIVE Births(_, _, _)
Births(tally, order, i) ==
  IF i > Len(order) THEN << >>
  ELSE (IF Born(tally[order[i]]) THEN << Insert(order[i]) >> ELSE << >>) \o Births(tally, order, i + 1)

EmptySurvey == [ dead_alive_neighbours |-> << >>, cmds |-> << >>, ovf |-> FALSE ]

\* The commands a run of game_of_life's body has queued when it returns,
\* given its first loop's result.
GolCommands(sv, tally_order) == sv.cmds \o Births(sv.dead_alive_neighbours, tally_order, 1)

game_of_life ==
  /\ ~panicked
  /\ "game_of_life" \notin ran
  /\ ran' = ran \cup {"game_of_life"}
  /\ \/ \* FixedTimestep::step(0.5): no step is due, the system does not run
        /\ tick' = "idle"
        /\ UNCHANGED << queue, panicked, dead_alive_neighbours >>
     \/ \* a step is due: the system runs and reads game_state.started
        /\ tick' = IF started THEN "running" ELSE "paused"
        /\ IF ReturnsEarly(started)
           THEN UNCHANGED << queue, panicked, dead_alive_neighbours >>
           ELSE \E query_order \in IterationOrders(alive) :
                  \E sv \in { Survey(query_order, 1, EmptySurvey) } :
                    \E tally_order \in IterationOrders(DOMAIN sv.dead_alive_neighbours),
                       overflow_checks \in Builds(sv.ovf) :
                      /\ panicked' = (overflow_checks /\ sv.ovf)
                      /\ dead_alive_neighbours' = IF overflow_checks /\ sv.ovf THEN << >>
                                                  ELSE sv.dead_alive_neighbours
                      /\ queue' = IF overflow_checks /\ sv.ovf THEN queue
                                  ELSE [queue EXCEPT !.game_of_life = GolCommands(sv, tally_order)]
  /\ UNCHANGED << wnds, hex_map, translation, alive, started, press, return_key, color, undo, flag, trial >>

\* ---- highlight_hex (98-136)
\* 100-105, 128: hex_map is a Res, get borrows it: the map after the lookup
HexMapAfterEntry(map, axial) ==
  [coord \in DOMAIN map \cup {axial} |-> IF coord \in DOMAIN map THEN map[coord] ELSE 0]
HexMapAfterGet(map, axial) == map

\* 129-133: remove Alive from an alive hex, insert it on a dead one
ToggleInsertOnly(is_alive, en) == Insert(en)
ToggleRemoveOnly(is_alive, en) == Remove(en)
Toggle(is_alive, en) == IF is_alive THEN Remove(en) ELSE Insert(en)

\* 128-134 for the result of the lookup
PressCommands(found, world_alive) ==
  IF found = { } THEN << >>
  ELSE << Toggle(QueryHas(world_alive, << >>, CHOOSE en \in found : TRUE), CHOOSE en \in found : TRUE) >>

\* 113: if let Some(screen_pos) = wnd.cursor_position(): whether the system
\* panics on what cursor_position() returned
PanicsUnlessSome(is_some) == ~is_some
PanicsOnCursor(is_some) == FALSE

highlight_hex ==
  /\ ~panicked
  /\ "highlight_hex" \notin ran
  /\ ran' = ran \cup {"highlight_hex"}
  /\ \/ \* 108: the left button was not just pressed
        /\ press' = "released"
        /\ UNCHANGED << queue, panicked, hex_map >>
     \/ \* 112: pressed, and wnds.get(camera.window) is None: unwrap panics
        /\ ~wnds.present
        /\ press' = "aborted"
        /\ panicked' = TRUE
        /\ UNCHANGED << queue, hex_map >>
     \/ \* 113: pressed, and wnd.cursor_position() is None
        /\ wnds.present
        /\ press' = "no_cursor"
        /\ panicked' = PanicsOnCursor(FALSE)
        /\ UNCHANGED << queue, hex_map >>
     \/ \* pressed at a position that the camera maps to world_pos
        /\ wnds.present
        /\ \E world_pos \in PointerPositions :
          \E rounded \in { AxialAt[world_pos] }, overflow_checks \in Builds(AxialAt[world_pos].ovf) :
            IF overflow_checks /\ rounded.ovf
            THEN /\ press' = "aborted"           \* cube_round panics
                 /\ panicked' = TRUE
                 /\ UNCHANGED << queue, hex_map >>
            ELSE /\ press' = IF rounded.axial \in DOMAIN hex_map THEN "inside" ELSE "outside"
                 /\ panicked' = FALSE
                 /\ hex_map' = HexMapAfterGet(hex_map, rounded.axial)
                 /\ queue' = [queue EXCEPT !.highlight_hex =
                                PressCommands(HexMapGet(hex_map, rounded.axial), alive)]
  /\ UNCHANGED << wnds, translation, alive, started, dead_alive_neighbours, tick, return_key, color, undo, flag, trial >>

\* ---- game_control (51-56)
\* 52-55: return unless the key was just pressed, else flip the flag
FlippedOn(game_state_started, just_pressed) == game_state_started \/ just_pressed
Flipped(game_state_started, just_pressed) == IF just_pressed THEN ~game_state_started ELSE game_state_started

game_control ==
  /\ ~panicked
  /\ "game_control" \notin ran
  /\ ran' = ran \cup {"game_control"}
  /\ \E just_pressed \in BOOLEAN :
       /\ return_key' = IF just_pressed THEN "just_pressed" ELSE "released"
       /\ started' = Flipped(started, just_pressed)
  /\ UNCHANGED << wnds, hex_map, translation, alive, panicked, queue, dead_alive_neighbours, tick, press, color, undo, flag, trial >>

\* ---- the end of a pass of the stage: the queued commands reach the world.
\* The two buffers are applied one after the other, in the stage's order of
\* its systems; then either the frame ends, or FixedTimestep asks for
\* another pass, in which only game_of_life runs.
NoUndo == [entity |-> 0, before |-> { }]

\* History for the pass being committed: a pass with a running tick forgets
\* the last toggle, a pass with a toggle records it, any other keeps it.
UndoAfter(last) ==
  IF tick = "running" THEN NoUndo
  ELSE IF queue.highlight_hex # << >>
       THEN [entity |-> queue.highlight_hex[1].e, before |-> alive]
       ELSE last

\* ---- the boolean-flag reference (spec.md 4.3-4.5): every cell has an
\* alive flag; a tick surveys the flags and then commits the rules in one
\* step; a toggle negates one flag.
FlagsOf(S) == [coord \in DOMAIN hex_map |-> hex_map[coord] \in S]
FlaggedNeighbours(flags, coord) ==
  Cardinality({ i \in 1..6 :
                  /\ << coord[1] + NeighbourOffsets[i][1], coord[2] + NeighbourOffsets[i][2] >> \in DOMAIN flags
                  /\ flags[<< coord[1] + NeighbourOffsets[i][1], coord[2] + NeighbourOffsets[i][2] >>] })
RuleOf(flags) ==
  [coord \in DOMAIN flags |->
     IF flags[coord] THEN ~(FlaggedNeighbours(flags, coord) # 2)       \* survival
     ELSE FlaggedNeighbours(flags, coord) = 2]                         \* birth
Negated(flags, coord) == [flags EXCEPT ![coord] = ~@]

\* The reference follows the frame being committed: a running tick applies
\* the rule, a toggle negates the pressed cell's flag.  A frame with both is
\* one it does not describe; it takes the world's alive set after it.
FlagsAfter(flags) ==
  IF tick = "running" /\ press = "inside" THEN FlagsOf(alive')
  ELSE IF tick = "running" THEN RuleOf(flags)
  ELSE IF press = "inside"
       THEN Negated(flags, CHOOSE coord \in DOMAIN hex_map : hex_map[coord] = queue.highlight_hex[1].e)
  ELSE flags

Commit(systems) ==
  /\ ~panicked
  /\ ran = systems
  /\ \E first \in { "highlight_hex", "game_of_life" } :
       \E second \in { "highlight_hex", "game_of_life" } \ { first } :
         alive' = ApplyQueue(ApplyQueue(alive, queue[first]), queue[second])
  /\ undo' = UndoAfter(undo)
  /\ flag' = FlagsAfter(flag)
  /\ queue' = NoCommands
  /\ dead_alive_neighbours' = << >>
  /\ tick' = "idle"
  /\ press' = "released"
  /\ return_key' = "released"
  /\ \E again \in BOOLEAN : ran' = IF again THEN systems \ {"game_of_life"} ELSE {}
  /\ UNCHANGED << wnds, hex_map, translation, started, panicked, color, trial >>

ApplyBuffers == Commit(Systems)

NoTrial == [op |-> "none"]

\* After the startup stage: setup_system has run, no hex is alive, the game
\* is paused (main, line 25).
Init ==
  /\ \E wnd \in Windows :
       /\ wnds = wnd
       /\ hex_map = Worlds[wnd].hex_map
       /\ translation = Worlds[wnd].translation
  /\ alive = {}
  /\ started = FALSE
  /\ panicked = FALSE
  /\ ran = {}
  /\ queue = NoCommands
  /\ dead_alive_neighbours = << >>
  /\ tick = "idle"
  /\ press = "released"
  /\ return_key = "released"
  /\ color = [en \in DOMAIN translation |-> "BLACK"]
  /\ undo = NoUndo
  /\ flag = FlagsOf({ })
  /\ trial = NoTrial

Next == highlight_hex \/ game_control \/ game_of_life \/ ApplyBuffers

Spec == Init /\ [][Next]_vars

\* ---- color_hex (138-146), the reader of the Alive tags
\* alive.is_some() for Option<&Alive>: whether the entity carries Alive in
\* the world the system runs on; the commands queued in this pass (cmds) are
\* not part of it.
RECURSIVE Removals(_)
Removals(cmds) ==
  IF cmds = << >> THEN { }
  ELSE (IF Head(cmds).op = "remove" THEN { Head(cmds).e } ELSE { }) \cup Removals(Tail(cmds))
IsSomeSeeingRemovals(world_alive, cmds, en) == en \in world_alive \ Removals(cmds)
IsSome(world_alive, cmds, en) == en \in world_alive

color_hex ==
  /\ ~panicked
  /\ "color_hex" \notin ran
  /\ ran' = ran \cup {"color_hex"}
  /\ color' = [en \in DOMAIN color |->
                 IF IsSome(alive, queue.highlight_hex \o queue.game_of_life, en) THEN "GRAY" ELSE "BLACK"]
  /\ UNCHANGED << wnds, hex_map, translation, alive, started, panicked, queue, dead_alive_neighbours, tick, press, return_key, undo, flag, trial >>

\* The stage with its reader: color_hex runs once a frame like the other
\* per-frame systems, in any order with them, and the buffers are applied
\* when all of them have run.
SystemsAndReader == Systems \cup { "color_hex" }
ApplyBuffersAfterReader == Commit(SystemsAndReader)
NextRender == highlight_hex \/ game_control \/ game_of_life \/ color_hex \/ ApplyBuffersAfterReader
SpecRender == Init /\ [][NextRender]_vars

(***************************************************************************)
(* 4. The coordinate functions on their own: the initial state draws the   *)
(* input of one call from a bounded set, the action makes the call and     *)
(* records its result in `trial`.                                          *)
(***************************************************************************)
MaxQuarter == 6         \* cube_round inputs: components k/4 with |k| <= MaxQuarter
MaxHalfSize == 1        \* round trips: the sizes n/2 with 1 <= n <= MaxHalfSize

\* The world of the window, before any frame.
InitWorld ==
  /\ wnds = (CHOOSE wnd \in Windows : wnd.present)
  /\ hex_map = Worlds[CHOOSE wnd \in Windows : wnd.present].hex_map
  /\ translation = Worlds[CHOOSE wnd \in Windows : wnd.present].translation
  /\ alive = {}
  /\ started = FALSE
  /\ panicked = FALSE
  /\ ran = {}
  /\ queue = NoCommands
  /\ dead_alive_neighbours = << >>
  /\ tick = "idle"
  /\ press = "released"
  /\ return_key = "released"
  /\ color = [en \in DOMAIN translation |-> "BLACK"]
  /\ undo = NoUndo
  /\ flag = FlagsOf({ })

\* Components of a cube_round input: the quarters around 0, and magnitudes
\* at and beyond the i32 range.
Quarter(k) == F32Div(F32FromInt(k), F32Lit(4))
LargeMagnitudes == { F32Fin(0, Two23, 7), F32Fin(0, Two23, 8), F32Fin(0, Two23, 17) }    \* 2^30, 2^31, 2^40
Components ==
  { Quarter(k) : k \in -MaxQuarter .. MaxQuarter } \cup LargeMagnitudes \cup { F32Neg(x) : x \in LargeMagnitudes }
CubeInputs ==
  (Components \X Components \X Components)
    \cup { screen_to_cube_float(HEX_SIZE, point) : point \in PointerPositions }

\* What a call of cube_round gives its caller in a build with or without
\* overflow checks.
Returned(r, overflow_checks) ==
  [ panic |-> overflow_checks /\ r.ovf,
    c |-> IF overflow_checks /\ r.ovf THEN << 0, 0, 0 >> ELSE r.c ]

NotReturned == [ panic |-> FALSE, c |-> << 0, 0, 0 >> ]

InitRound ==
  /\ InitWorld
  /\ \E cube \in CubeInputs, overflow_checks \in BOOLEAN :
       trial = [ op |-> "cube_round", called |-> FALSE, cube |-> cube,
                 overflow_checks |-> overflow_checks, ret |-> NotReturned ]

RoundTrial ==
  /\ trial.op = "cube_round"
  /\ ~trial.called
  /\ trial' = [trial EXCEPT !.called = TRUE,
                            !.ret = Returned(cube_round(trial.cube), trial.overflow_checks)]
  /\ UNCHANGED << wnds, hex_map, translation, alive, started, panicked, ran, queue, dead_alive_neighbours, tick, press, return_key, color, undo, flag >>

SpecRound == InitRound /\ [][RoundTrial]_vars

\* Sizes of a round trip: HEX_SIZE, the halves, and the smallest positive f32.
TinySize == F32Fin(0, 1, F32_EMIN)
OrdinarySizes == { HEX_SIZE } \cup { F32Div(F32FromInt(n), F32Lit(2)) : n \in 1 .. MaxHalfSize }
TestedSizes == OrdinarySizes \cup { TinySize }

NotRecovered == [ axial |-> << 0, 0 >>, ovf |-> FALSE ]

InitRoundTrip ==
  /\ InitWorld
  /\ \E size \in TestedSizes, hex_pos \in (GEN_MIN .. GEN_MAX) \X (GEN_MIN .. GEN_MAX) :
       trial = [ op |-> "round_trip", called |-> FALSE, size |-> size, hex_pos |-> hex_pos,
                 back |-> NotRecovered ]

RoundTripTrial ==
  /\ trial.op = "round_trip"
  /\ ~trial.called
  /\ trial' = [trial EXCEPT !.called = TRUE,
                            !.back = PointToAxial(trial.size, axial_to_screen(trial.size, trial.hex_pos))]
  /\ UNCHANGED << wnds, hex_map, translation, alive, started, panicked, ran, queue, dead_alive_neighbours, tick, press, return_key, color, undo, flag >>

SpecRoundTrip == InitRoundTrip /\ [][RoundTripTrial]_vars

\* Coordinates of a neighbour_iter call: around the origin, the ends of the
\* generated range, and the ends of i32.
MaxCoordinate == 3      \* neighbour_iter inputs: components with |k| <= MaxCoordinate
CoordinateComponents ==
  (-MaxCoordinate .. MaxCoordinate) \cup { GEN_MIN, GEN_MAX - 1 }
    \cup { I32_MIN, I32_MIN + 1, I32_MAX - 1, I32_MAX }

\* What the consumer of the iterator gets in a build with or without
\* overflow checks.
Yielded(items, overflowed, overflow_checks) ==
  [ panic |-> overflow_checks /\ overflowed,
    items |-> IF overflow_checks /\ overflowed THEN << >> ELSE items ]

NotYielded == [ panic |-> FALSE, items |-> << >> ]

InitNeighbours ==
  /\ InitWorld
  /\ \E a \in CoordinateComponents \X CoordinateComponents, overflow_checks \in BOOLEAN :
       trial = [ op |-> "neighbour_iter", called |-> FALSE, a |-> a,
                 overflow_checks |-> overflow_checks, ret |-> NotYielded ]

NeighboursTrial ==
  /\ trial.op = "neighbour_iter"
  /\ ~trial.called
  /\ trial' = [trial EXCEPT !.called = TRUE,
                            !.ret = Yielded(neighbour_iter(trial.a), NeighbourOverflows(trial.a),
                                            trial.overflow_checks)]
  /\ UNCHANGED << wnds, hex_map, translation, alive, started, panicked, ran, queue, dead_alive_neighbours, tick, press, return_key, color, undo, flag >>

SpecNeighbours == InitNeighbours /\ [][NeighboursTrial]_vars

(***************************************************************************)
(* 5. Properties.  The rules of the automaton are stated on the grid       *)
(* itself: cells are the values of hex_map, two cells are neighbours when  *)
(* their keys are at hex distance 1.                                       *)
(***************************************************************************)
Cells == { hex_map[coord] : coord \in DOMAIN hex_map }
KeyOf(en) == CHOOSE coord \in DOMAIN hex_map : hex_map[coord] = en
Abs(n) == IF n < 0 THEN -n ELSE n
HexDistance(a, b) == (Abs(a[1] - b[1]) + Abs(a[2] - b[2]) + Abs((a[1] + a[2]) - (b[1] + b[2]))) \div 2
AliveKeys(S) == { coord \in DOMAIN hex_map : hex_map[coord] \in S }
AliveAround(keys, coord) == Cardinality({ other \in keys : HexDistance(coord, other) = 1 })
AliveNeighbours(S, en) == AliveAround(AliveKeys(S), KeyOf(en))

\* The automaton's step and the pointer's toggle as functions of the alive set.
TickOf(S) ==
  LET keys == AliveKeys(S)
  IN  { hex_map[coord] : coord \in { key \in DOMAIN hex_map : AliveAround(keys, key) = 2 } }
ToggleOf(S, en) == IF en \in S THEN S \ {en} ELSE S \cup {en}

\* The pass about to be committed had a tick that read started = true / and
\* no toggle with it.
TickCommitting == ran = Systems /\ ~panicked /\ tick = "running"
TickOnly == TickCommitting /\ press # "inside"

\* C1: an alive cell is alive after a tick (running, no toggle in the frame)
\* exactly when 2 of its grid neighbours were alive before it; with 0, 1, 3,
\* 4, 5 or 6 it is dead, an isolated cell in particular.
C1_Survival ==
  [][TickOnly => \A en \in alive : (en \in alive') <=> (AliveNeighbours(alive, en) = 2)]_vars

C1_Witness ==
  /\ TickOnly
  /\ \E en \in alive : AliveNeighbours(alive, en) = 2
  /\ \E en \in alive : AliveNeighbours(alive, en) = 3
  /\ \E i \in DOMAIN queue.game_of_life : queue.game_of_life[i].op = "remove"

\* C2: a dead cell is alive after a tick (running, no toggle in the frame)
\* exactly when 2 of its neighbours were alive before it.
C2_Birth ==
  [][TickOnly => \A en \in Cells \ alive : (en \in alive') <=> (AliveNeighbours(alive, en) = 2)]_vars

C2_Witness ==
  /\ TickOnly
  /\ \E en \in Cells \ alive : AliveNeighbours(alive, en) = 2
  /\ \E en \in Cells \ alive : AliveNeighbours(alive, en) = 3
  /\ \E i \in DOMAIN queue.game_of_life : queue.game_of_life[i].op = "insert"

\* C3: whatever the order of the survey and of the tally's iteration, the
\* commands a tick has queued, applied to the alive set it started from, give
\* the set the rules define from that set alone: no command queued during
\* the tick is seen by a neighbour count of the same tick.
C3_PreTickOnly ==
  [][("game_of_life" \notin ran /\ "game_of_life" \in ran' /\ tick' = "running" /\ ~panicked')
       => ApplyQueue(alive, queue'.game_of_life) = TickOf(alive)]_vars

C3_Witness ==
  /\ "game_of_life" \in ran
  /\ tick = "running"
  /\ Cardinality(alive) >= 3
  /\ \E i, j \in DOMAIN queue.game_of_life :
       /\ i < j
       /\ queue.game_of_life[i].op = "remove"
       /\ queue.game_of_life[j].op = "remove"
       /\ HexDistance(KeyOf(queue.game_of_life[i].e), KeyOf(queue.game_of_life[j].e)) = 1
  /\ \E i \in DOMAIN queue.game_of_life : queue.game_of_life[i].op = "insert"

\* C4: a toggle and a tick of the same frame are serialized: the alive set
\* after the frame is tick(toggle(S)) or toggle(tick(S)).
C4_Serialized ==
  [][(TickCommitting /\ press = "inside")
       => alive' \in { TickOf(ToggleOf(alive, queue.highlight_hex[1].e)),
                       ToggleOf(TickOf(alive), queue.highlight_hex[1].e) }]_vars

\* C5: a due tick that reads started = false changes no cell, however
\* many of them follow one another.
C5_PauseGate ==
  [][(ran = Systems /\ tick = "paused" /\ press # "inside") => alive' = alive]_vars

C5_Witness ==
  /\ ran = Systems
  /\ tick = "paused"
  /\ press # "inside"
  /\ TickOf(alive) # alive

\* C6: a toggle of the cell that the last committed toggle toggled, with
\* no tick between the two, gives back the alive set from before the first.
C6_DoubleToggle ==
  [][(ran = Systems /\ tick # "running" /\ press = "inside"
        /\ undo.entity = queue.highlight_hex[1].e)
       => alive' = undo.before]_vars

C6_Witness ==
  /\ ran = Systems
  /\ tick # "running"
  /\ press = "inside"
  /\ undo.entity = queue.highlight_hex[1].e
  /\ undo.before # {}
  /\ undo.entity \notin undo.before

\* C7: a press whose position maps to a coordinate that is no key of hex_map
\* changes nothing: the frame's alive set is what it is without the press,
\* and hex_map keeps its number of cells.
C7_OutOfGrid ==
  [][/\ press' = "outside" => (alive' = alive /\ Cardinality(DOMAIN hex_map') = Cardinality(DOMAIN hex_map))
     /\ (ran = Systems /\ press = "outside")
          => /\ alive' = IF tick = "running" THEN TickOf(alive) ELSE alive
             /\ Cardinality(DOMAIN hex_map') = Cardinality(DOMAIN hex_map)]_vars

C7_Witness ==
  /\ ran = Systems
  /\ press = "outside"
  /\ tick # "running"
  /\ alive # {}

\* C8: no step changes hex_map: its keys and the cell of each key stay
\* what setup_system built.
C8_HexMapFixed == [][hex_map' = hex_map]_vars

C8_Witness ==
  /\ ran = Systems
  /\ tick = "running"
  /\ press = "inside"
  /\ undo.entity # 0
  /\ queue.game_of_life # << >>
  /\ \E wnd \in Windows : wnd.present /\ hex_map = Worlds[wnd].hex_map

\* q + r + s = 0 over the integers, for i32 components (by 16-bit halves)
SumIsZero(c) ==
  /\ (Lo(c[1]) + Lo(c[2]) + Lo(c[3])) % Two16 = 0
  /\ Hi(c[1]) + Hi(c[2]) + Hi(c[3]) + ((Lo(c[1]) + Lo(c[2]) + Lo(c[3])) \div Two16) = 0

\* C9: for every input, cube_round returns (q, r, s) with q + r + s = 0.
C9_CubeSumZero ==
  (trial.op = "cube_round" /\ trial.called) => (~trial.ret.panic /\ SumIsZero(trial.ret.c))

\* C10 as stated: for every (q, r) in -100..100 and every size > 0 the round
\* trip through axial_to_screen, screen_to_cube_float, cube_round and the
\* projection returns (q, r).
C10_EverySize ==
  (trial.op = "round_trip" /\ trial.called) => trial.back.axial = trial.hex_pos

\* C10, amended: for every (q, r) in -100..100 and the sizes HEX_SIZE and
\* 1/2 .. MaxHalfSize/2 the round trip returns (q, r) without overflow; and
\* the coordinate recovered from the position of every cell of hex_map is the
\* cell's key.
C10_RoundTrip ==
  /\ (trial.op = "round_trip" /\ trial.called /\ trial.size \in OrdinarySizes)
       => trial.back = [axial |-> trial.hex_pos, ovf |-> FALSE]
  /\ \A coord \in DOMAIN hex_map :
       AxialAt[translation[hex_map[coord]]] = [axial |-> coord, ovf |-> FALSE]

C10_Witness ==
  /\ trial.op = "round_trip"
  /\ trial.called
  /\ trial.size = HEX_SIZE
  /\ trial.hex_pos = << GEN_MIN, GEN_MAX >>
  /\ trial.back.axial = trial.hex_pos
  /\ Cardinality(DOMAIN hex_map) > 1

\* The six canonical offsets, and v = a + d over the integers for an offset
\* component d and i32 values a and v.
CanonicalOffsets == { <<1, 0>>, <<1, -1>>, <<0, -1>>, <<-1, 0>>, <<-1, 1>>, <<0, 1>> }
IsShifted(a, d, v) ==
  IF d = 0 THEN v = a
  ELSE IF d = 1 THEN a # I32_MAX /\ v # I32_MIN /\ v - 1 = a
  ELSE a # I32_MIN /\ v # I32_MAX /\ v + 1 = a
IsInputPlus(a, offset, item) == IsShifted(a[1], offset[1], item[1]) /\ IsShifted(a[2], offset[2], item[2])
SixNeighbours(a, ret) ==
  /\ ~ret.panic
  /\ Len(ret.items) = 6
  /\ \A i, j \in 1 .. Len(ret.items) : i # j => ret.items[i] # ret.items[j]
  /\ \A i \in 1 .. Len(ret.items) :
       /\ \E offset \in CanonicalOffsets : IsInputPlus(a, offset, ret.items[i])
       /\ ret.items[i] # a
InsideI32(a) == \A k \in 1..2 : a[k] # I32_MIN /\ a[k] # I32_MAX

\* C11 as stated: for every axial coordinate neighbour_iter yields 6
\* pairwise distinct coordinates, each the input plus a canonical offset,
\* none the input.
C11_EveryCoordinate ==
  (trial.op = "neighbour_iter" /\ trial.called) => SixNeighbours(trial.a, trial.ret)

\* C11, amended: the same for every axial coordinate whose components are
\* neither i32::MIN nor i32::MAX.
C11_Neighbours ==
  (trial.op = "neighbour_iter" /\ trial.called /\ InsideI32(trial.a))
    => SixNeighbours(trial.a, trial.ret)

C11_Witness ==
  /\ trial.op = "neighbour_iter"
  /\ trial.called
  /\ trial.a = << I32_MAX - 1, I32_MIN + 1 >>
  /\ trial.overflow_checks
  /\ Len(trial.ret.items) = 6

\* Three cells, each a neighbour of the other two.
IsTriangle(S) ==
  /\ Cardinality(S) = 3
  /\ \A en, other \in S : en # other => HexDistance(KeyOf(en), KeyOf(other)) = 1

\* C12: from exactly three mutually adjacent alive cells and every other cell
\* dead, a tick while running leaves the three alive and makes alive every
\* dead cell that is a neighbour of exactly 2 of them.
C12_StableTriangle ==
  [][(TickOnly /\ IsTriangle(alive))
       => /\ alive \subseteq alive'
          /\ \A en \in Cells \ alive : AliveNeighbours(alive, en) = 2 => en \in alive']_vars

C12_Witness ==
  /\ TickOnly
  /\ IsTriangle(alive)
  /\ Cardinality({ en \in Cells \ alive : AliveNeighbours(alive, en) = 2 }) >= 2
  /\ \E en \in Cells \ alive : AliveNeighbours(alive, en) = 1
  /\ \A i \in DOMAIN queue.game_of_life : queue.game_of_life[i].op = "insert"
  /\ Len(queue.game_of_life) >= 2

\* The hexes color_hex has painted GRAY, and the sets that a part of a
\* tick's commands, neither none nor all of them, would make of S.
GrayHexes(shape_color) == { en \in DOMAIN shape_color : shape_color[en] = "GRAY" }
CommandsOf(cmds) == { cmds[i] : i \in DOMAIN cmds }
PartlyApplied(S, cmds) ==
  { (S \ { cmd.e : cmd \in { c \in part : c.op = "remove" } }) \cup { cmd.e : cmd \in { c \in part : c.op = "insert" } } :
      part \in SUBSET CommandsOf(cmds) } \ { S, ApplyQueue(S, cmds) }

\* C13: what color_hex reads in a frame is, for all hexes at once, the alive
\* set before the commit of that frame's tick or the one after it, never
\* one with a part of the tick's removals and births applied.
C13_NoMidCommit ==
  [][("color_hex" \notin ran /\ "color_hex" \in ran')
       => /\ GrayHexes(color') \in { alive, ApplyQueue(alive, queue.game_of_life) }
          /\ GrayHexes(color') \notin PartlyApplied(alive, queue.game_of_life)]_vars

C13_Witness ==
  /\ "color_hex" \in ran
  /\ "game_of_life" \in ran
  /\ tick = "running"
  /\ GrayHexes(color) = alive
  /\ \E i, j \in DOMAIN queue.game_of_life :
       queue.game_of_life[i].op = "remove" /\ queue.game_of_life[j].op = "insert"
  /\ PartlyApplied(alive, queue.game_of_life) # { }

\* A step of the named system.
Runs(system) == system \notin ran /\ system \in ran'

\* C14: the game starts paused; a just-pressed Return flips started and
\* nothing else changes it; a due tick applies the rules exactly when started
\* is true as it runs, a flip earlier in the same frame included.
C14_RunPause ==
  /\ ~started
  /\ [][(Runs("game_control")
           => started' = (IF return_key' = "just_pressed" THEN ~started ELSE started))
        /\ ((started' # started) => (Runs("game_control") /\ return_key' = "just_pressed"))
        /\ ((Runs("game_of_life") /\ tick' # "idle" /\ ~panicked')
              => IF started THEN ApplyQueue(alive, queue'.game_of_life) = TickOf(alive)
                            ELSE queue'.game_of_life = << >>)]_vars

C14_Witness ==
  /\ return_key = "just_pressed"
  /\ ~started
  /\ "game_of_life" \in ran
  /\ tick = "paused"
  /\ TickOf(alive) # alive

\* The independently rounded axes of a cube, their rounding errors, the
\* axes whose error no other exceeds, and the axes the tie rules leave: not
\* q when r's error equals it, not r when s's error equals it.
EachRounded(cube) == [i \in 1..3 |-> F32AsI32(F32Round(cube[i]))]
RoundingError(cube) == [i \in 1..3 |-> F32Abs(F32Sub(F32Round(cube[i]), cube[i]))]
Largest(err) == { i \in 1..3 : \A j \in 1..3 : ~F32Gt(err[j], err[i]) }
RepairAxes(err) ==
  Largest(err) \ ((IF {1, 2} \subseteq Largest(err) THEN {1} ELSE { })
                    \cup (IF {2, 3} \subseteq Largest(err) THEN {2} ELSE { }))
OtherAxes(axis) == IF axis = 1 THEN << 2, 3 >> ELSE IF axis = 2 THEN << 1, 3 >> ELSE << 1, 2 >>
RecomputedAt(axis, each) ==
  [i \in 1..3 |-> IF i = axis THEN I32NegSub(each[OtherAxes(axis)[1]], each[OtherAxes(axis)[2]]).v
                              ELSE each[i]]

\* C15: what cube_round returns is the independently rounded cube with one
\* axis recomputed from the other two; that axis has the largest rounding
\* error, and it is r, not q, when the errors of q and r are equal and
\* largest, and s, not r, when those of r and s are.
C15_LargestError ==
  (trial.op = "cube_round" /\ trial.called /\ ~trial.ret.panic)
    => \E axis \in RepairAxes(RoundingError(trial.cube)) :
         trial.ret.c = RecomputedAt(axis, EachRounded(trial.cube))

C15_Witness ==
  /\ trial.op = "cube_round"
  /\ trial.called
  /\ trial.cube = << Quarter(2), Quarter(2), Quarter(-4) >>
  /\ EachRounded(trial.cube) = << 1, 1, -1 >>
  /\ RepairAxes(RoundingError(trial.cube)) = { 2 }
  /\ trial.ret.c = << 1, 0, -1 >>

\* The rule on the unbounded lattice of axial coordinates: how many of the
\* six neighbours of a coordinate are keys of alive cells; a coordinate
\* that is no key of hex_map holds no cell.
LatticeCount(keys, coord) ==
  Cardinality({ offset \in CanonicalOffsets : << coord[1] + offset[1], coord[2] + offset[2] >> \in keys })
AbsentAround ==
  { << coord[1] + offset[1], coord[2] + offset[2] >> : coord \in DOMAIN hex_map, offset \in CanonicalOffsets }
    \ DOMAIN hex_map

\* C16: every alive cell is a cell of hex_map; and a tick decides a cell at
\* the boundary as if the neighbours missing from hex_map were dead: the
\* cells alive after it are those of hex_map's keys that have exactly 2 alive
\* cells among their six lattice neighbours, and no absent coordinate is born.
C16_Boundary ==
  /\ [](alive \subseteq Cells)
  /\ [][TickOnly
          => alive' = { hex_map[coord] : coord \in { c \in DOMAIN hex_map : LatticeCount(AliveKeys(alive), c) = 2 } }]_vars

C16_Witness ==
  /\ TickOnly
  /\ \E coord \in AbsentAround : LatticeCount(AliveKeys(alive), coord) = 2
  /\ \E coord \in DOMAIN hex_map :
       /\ hex_map[coord] \in alive
       /\ LatticeCount(DOMAIN hex_map, coord) < 6
       /\ LatticeCount(AliveKeys(alive), coord) = 2
  /\ \E coord \in DOMAIN hex_map :
       /\ hex_map[coord] \notin alive
       /\ LatticeCount(DOMAIN hex_map, coord) < 6
       /\ LatticeCount(AliveKeys(alive), coord) = 2

\* C17: a press on a grid cell flips that cell's Alive and nothing else:
\* highlight_hex itself changes neither the world, hex_map nor started, and
\* after the frame the cell is alive exactly if it was not before, every
\* other cell is what it is without the press, hex_map and started are the
\* same; with started true or false, with or without a tick in the frame.
C17_ToggleFlips ==
  [][((Runs("highlight_hex") /\ press' = "inside")
        => (alive' = alive /\ hex_map' = hex_map /\ started' = started))
     /\ ((ran = Systems /\ press = "inside")
          => /\ \A en \in { queue.highlight_hex[1].e } :
                  /\ hex_map[AxialAt[translation[en]].axial] = en
                  /\ (en \in alive') <=> (en \notin alive)
                  /\ alive' \ {en} = (IF tick = "running" THEN TickOf(alive) ELSE alive) \ {en}
             /\ hex_map' = hex_map
             /\ started' = started)]_vars

C17_Witness ==
  /\ ran = Systems
  /\ press = "inside"
  /\ started
  /\ tick = "running"
  /\ queue.highlight_hex[1].e \in alive
  /\ \E i \in DOMAIN queue.game_of_life : queue.game_of_life[i].e # queue.highlight_hex[1].e
  /\ TickOf(alive) # alive

\* C18: a press in a frame in which the window has no cursor position does
\* nothing: highlight_hex queues no command and does not panic, and the
\* frame leaves the alive set what it is without the press.
C18_NoCursor ==
  [][((Runs("highlight_hex") /\ press' = "no_cursor")
        => (~panicked' /\ queue' = queue /\ alive' = alive))
     /\ ((ran = Systems /\ press = "no_cursor")
          => alive' = IF tick = "running" THEN TickOf(alive) ELSE alive)]_vars

C18_Witness ==
  /\ ran = Systems
  /\ ~panicked
  /\ press = "no_cursor"
  /\ wnds.present
  /\ queue.highlight_hex = << >>
  /\ tick # "running"
  /\ alive # { }

\* C19: after every frame the cells that carry Alive are the cells whose
\* flag is true in the boolean-flag reference, which applies the rule once
\* for every running tick and negates a flag for every toggle, for every
\* sequence of ticks, run/pause flips and toggles in frames of their own.
C19_TagsAreFlags == flag = FlagsOf(alive)

C19_Witness ==
  /\ ran = Systems
  /\ tick = "running"
  /\ press # "inside"
  /\ flag = FlagsOf(alive)
  /\ RuleOf(flag) # flag
  /\ RuleOf(RuleOf(flag)) # RuleOf(flag)
  /\ FlagsOf(ApplyQueue(alive, queue.game_of_life)) = RuleOf(flag)
  /\ \E i, j \in DOMAIN queue.game_of_life :
       queue.game_of_life[i].op = "remove" /\ queue.game_of_life[j].op = "insert"

\* The entities a tick's commands remove Alive from, and insert it on.
Killed(cmds) == { cmds[i].e : i \in { j \in DOMAIN cmds : cmds[j].op = "remove" } }
BornOf(cmds) == { cmds[i].e : i \in { j \in DOMAIN cmds : cmds[j].op = "insert" } }

\* C20: the tally of a tick has an entry for exactly the dead cells with an
\* alive neighbour, each the number of the cell's alive neighbours, between 1
\* and 6 (far from the u8's 255); and the tick queues no removal and
\* insertion for the same cell.
C20_Tally ==
  /\ \A en \in DOMAIN dead_alive_neighbours :
       /\ en \in Cells \ alive
       /\ dead_alive_neighbours[en] \in 1 .. 6
       /\ dead_alive_neighbours[en] = AliveNeighbours(alive, en)
  /\ ("game_of_life" \in ran /\ tick = "running" /\ ~panicked)
       => \A en \in Cells \ alive : AliveNeighbours(alive, en) >= 1 => en \in DOMAIN dead_alive_neighbours
  /\ Killed(queue.game_of_life) \cap BornOf(queue.game_of_life) = { }

C20_Witness ==
  /\ "game_of_life" \in ran
  /\ tick = "running"
  /\ \E en \in DOMAIN dead_alive_neighbours : dead_alive_neighbours[en] >= 4
  /\ \E en \in DOMAIN dead_alive_neighbours : dead_alive_neighbours[en] = 2
  /\ Killed(queue.game_of_life) # { }
  /\ BornOf(queue.game_of_life) # { }

====
